---- MODULE Spec2Model ----
(***************************************************************************)
(* SecondOrderDynamics<T> of src/src/lib.rs, instantiated at T = f32 (the  *)
(* instantiation of tests::it_works).  All arithmetic of the code is f32   *)
(* arithmetic; the first part of the module is IEEE-754 binary32 with      *)
(* round-to-nearest-even, written on integers below 2^31.                  *)
(*                                                                         *)
(* An f32 is the triple <<s, e, f>> of its sign bit, its biased exponent   *)
(* (0..255) and its fraction (0..2^23-1).  Every NaN is the one quiet NaN. *)
(***************************************************************************)
EXTENDS Integers, Sequences, FiniteSets, TLC

\* ------------------------------------------------------------------ f32

NaN == <<0, 255, 4194304>>
Inf(s) == <<s, 255, 0>>
Zero(s) == <<s, 0, 0>>

IsNaN(a) == a[2] = 255 /\ a[3] # 0
IsInf(a) == a[2] = 255 /\ a[3] = 0
IsZero(a) == a[2] = 0 /\ a[3] = 0
IsFinite(a) == a[2] < 255

\* An operation takes its operands as values: FMul(a, b) and the like evaluate a and b
\* once, as members of a one-element set, and apply MulV to the two values.

\* The number of bits of m (0 <= m < 2^31), by bisection.
BitLen4(m) == IF m < 4 THEN (IF m < 2 THEN m ELSE 2) ELSE (IF m < 8 THEN 3 ELSE 4)
BitLen8(m) == IF m < 16 THEN BitLen4(m) ELSE 4 + BitLen4(m \div 16)
BitLen16(m) == IF m < 256 THEN BitLen8(m) ELSE 8 + BitLen8(m \div 256)
BitLen(m) == IF m < 65536 THEN BitLen16(m) ELSE 16 + BitLen16(m \div 65536)

\* A finite non-zero f32 is (-1)^s * Mant * 2^Expo with 2^23 <= Mant < 2^24
\* (a subnormal is shifted up, its exponent going below -149).
Mant(a) == IF a[2] # 0 THEN 8388608 + a[3] ELSE a[3] * 2 ^ (24 - BitLen(a[3]))
Expo(a) == IF a[2] # 0 THEN a[2] - 150 ELSE -149 - (24 - BitLen(a[3]))

\* The f32 of sign s nearest to m * 2^e (0 < m < 2^30), ties to even; sticky says
\* that the exact value lies strictly above m * 2^e and below (m+1) * 2^e.
Pack(s, q, e) ==
  LET qq == IF q = 16777216 THEN 8388608 ELSE q
      ee == IF q = 16777216 THEN e + 1 ELSE e
  IN  IF qq < 8388608 THEN <<s, 0, qq>>
      ELSE IF ee + 150 >= 255 THEN Inf(s)
      ELSE <<s, ee + 150, qq - 8388608>>

RoundV(s, m, e, sticky) ==
  LET L == BitLen(m)
      sh == IF L - 24 >= -149 - e THEN L - 24 ELSE -149 - e
  IN  IF sh <= 0 THEN Pack(s, m * 2 ^ (-sh), e + sh)
      ELSE IF sh > L THEN Zero(s)
      ELSE LET q == m \div 2 ^ sh
               rem == m % 2 ^ sh
               half == 2 ^ (sh - 1)
               up == rem > half \/ (rem = half /\ (sticky \/ q % 2 = 1))
           IN  Pack(s, IF up THEN q + 1 ELSE q, e + sh)
Round(s, m, e, sticky) ==
  CHOOSE r \in {RoundV(v[1], v[2], v[3], v[4]) : v \in {<<s, m, e, sticky>>}} : TRUE

NegV(a) == IF IsNaN(a) THEN NaN ELSE <<1 - a[1], a[2], a[3]>>
AbsV(a) == IF IsNaN(a) THEN NaN ELSE <<0, a[2], a[3]>>
FNeg(a) == CHOOSE r \in {NegV(v) : v \in {a}} : TRUE
FAbs(a) == CHOOSE r \in {AbsV(v) : v \in {a}} : TRUE

\* a * b: the 48-bit product of the mantissas from 12-bit halves.
MulV(a, b) ==
  LET s == (a[1] + b[1]) % 2
  IN  IF IsNaN(a) \/ IsNaN(b) THEN NaN
      ELSE IF IsInf(a) \/ IsInf(b)
        THEN (IF IsZero(a) \/ IsZero(b) THEN NaN ELSE Inf(s))
      ELSE IF IsZero(a) \/ IsZero(b) THEN Zero(s)
      ELSE LET ma == Mant(a)
               mb == Mant(b)
               ah == ma \div 4096
               al == ma % 4096
               bh == mb \div 4096
               bl == mb % 4096
               mid == ah * bl + al * bh
               low == (mid % 4096) * 4096 + al * bl
               high == ah * bh + mid \div 4096 + low \div 16777216
               rest == low % 16777216
           IN  Round(s, high * 64 + rest \div 262144, Expo(a) + Expo(b) + 18,
                     rest % 262144 # 0)
FMul(a, b) == CHOOSE r \in {MulV(v[1], v[2]) : v \in {<<a, b>>}} : TRUE

\* a / b: long division, 7 quotient bits at a time.
DivV(a, b) ==
  LET s == (a[1] + b[1]) % 2
  IN  IF IsNaN(a) \/ IsNaN(b) THEN NaN
      ELSE IF IsInf(a) THEN (IF IsInf(b) THEN NaN ELSE Inf(s))
      ELSE IF IsInf(b) THEN Zero(s)
      ELSE IF IsZero(b) THEN (IF IsZero(a) THEN NaN ELSE Inf(s))
      ELSE IF IsZero(a) THEN Zero(s)
      ELSE LET ma == Mant(a)
               mb == Mant(b)
               q0 == ma \div mb
               r0 == ma % mb
               q1 == (r0 * 128) \div mb
               r1 == (r0 * 128) % mb
               q2 == (r1 * 128) \div mb
               r2 == (r1 * 128) % mb
               q3 == (r2 * 128) \div mb
               r3 == (r2 * 128) % mb
               q4 == (r3 * 128) \div mb
               r4 == (r3 * 128) % mb
           IN  Round(s, (((q0 * 128 + q1) * 128 + q2) * 128 + q3) * 128 + q4,
                     Expo(a) - Expo(b) - 28, r4 # 0)
FDiv(a, b) == CHOOSE r \in {DivV(v[1], v[2]) : v \in {<<a, b>>}} : TRUE

\* |a| < |b| for finite a, b.
MagLt(a, b) == a[2] < b[2] \/ (a[2] = b[2] /\ a[3] < b[3])

\* a + b: the smaller operand is aligned to the larger with 5 guard bits.
AddV(a, b) ==
  IF IsNaN(a) \/ IsNaN(b) THEN NaN
  ELSE IF IsInf(a) THEN (IF IsInf(b) /\ a[1] # b[1] THEN NaN ELSE a)
  ELSE IF IsInf(b) THEN b
  ELSE IF IsZero(a) THEN (IF IsZero(b) THEN Zero(IF a[1] = 1 /\ b[1] = 1 THEN 1 ELSE 0) ELSE b)
  ELSE IF IsZero(b) THEN a
  ELSE LET big == IF MagLt(a, b) THEN b ELSE a
           sml == IF MagLt(a, b) THEN a ELSE b
           diff == Expo(big) - Expo(sml)
           A == Mant(big) * 32
           B0 == Mant(sml) * 32
           B == IF diff > 29 THEN 0 ELSE B0 \div 2 ^ diff
           lost == IF diff > 29 THEN TRUE ELSE B0 % 2 ^ diff # 0
           e == Expo(big) - 5
       IN  IF a[1] = b[1] THEN Round(big[1], A + B, e, lost)
           ELSE IF A = B /\ ~lost THEN Zero(0)
           ELSE IF lost THEN Round(big[1], A - B - 1, e, TRUE)
           ELSE Round(big[1], A - B, e, FALSE)
FAdd(a, b) == CHOOSE r \in {AddV(v[1], v[2]) : v \in {<<a, b>>}} : TRUE

FSub(a, b) == FAdd(a, FNeg(b))

EqV(a, b) == ~IsNaN(a) /\ ~IsNaN(b) /\ (a = b \/ (IsZero(a) /\ IsZero(b)))
FEq(a, b) == CHOOSE r \in {EqV(v[1], v[2]) : v \in {<<a, b>>}} : TRUE
FNe(a, b) == ~FEq(a, b)
LtV(a, b) ==
  /\ ~IsNaN(a) /\ ~IsNaN(b)
  /\ ~(IsZero(a) /\ IsZero(b))
  /\ IF a[1] # b[1] THEN a[1] = 1
     ELSE IF a[1] = 0 THEN MagLt(a, b) ELSE MagLt(b, a)
FLt(a, b) == CHOOSE r \in {LtV(v[1], v[2]) : v \in {<<a, b>>}} : TRUE
LeV(a, b) == LtV(a, b) \/ EqV(a, b)
FLe(a, b) == CHOOSE r \in {LeV(v[1], v[2]) : v \in {<<a, b>>}} : TRUE
FGt(a, b) == FLt(b, a)
FGe(a, b) == FLe(b, a)

\* f32::max: the other operand when one is NaN.
MaxV(a, b) == IF IsNaN(a) THEN b ELSE IF IsNaN(b) THEN a ELSE IF LtV(a, b) THEN b ELSE a
FMax(a, b) == CHOOSE r \in {MaxV(v[1], v[2]) : v \in {<<a, b>>}} : TRUE

\* sqrt(a), correctly rounded: the restoring square root, two radicand bits a step
\* (the pairs of m from pair i down, then zero pairs down to pair -13).
RECURSIVE SqrtBits(_, _, _, _)
SqrtBitsV(m, i, root, rem) ==
  IF i < -13 THEN <<root, rem>>
  ELSE LET pair == IF i >= 0 THEN (m \div 4 ^ i) % 4 ELSE 0
           r == rem * 4 + pair
           trial == root * 4 + 1
       IN  IF r >= trial THEN SqrtBits(m, i - 1, root * 2 + 1, r - trial)
           ELSE SqrtBits(m, i - 1, root * 2, r)
SqrtBits(m, i, root, rem) ==
  CHOOSE r \in {SqrtBitsV(v[1], v[2], v[3], v[4]) : v \in {<<m, i, root, rem>>}} : TRUE

SqrtV(a) ==
  IF IsNaN(a) THEN NaN
  ELSE IF IsZero(a) THEN a
  ELSE IF a[1] = 1 THEN NaN
  ELSE IF IsInf(a) THEN a
  ELSE LET odd == Expo(a) % 2 # 0
           m == IF odd THEN Mant(a) * 2 ELSE Mant(a)
           e == IF odd THEN Expo(a) - 1 ELSE Expo(a)
       IN  CHOOSE r \in {Round(0, v[1], (e - 26) \div 2, v[2] # 0) : v \in {SqrtBits(m, 12, 0, 0)}} : TRUE
FSqrt(a) == CHOOSE r \in {SqrtV(v) : v \in {a}} : TRUE

\* The f32 nearest to the integer n (|n| < 2^30) and to the decimal literal n/d.
FromInt(n) == IF n = 0 THEN Zero(0) ELSE IF n > 0 THEN Round(0, n, 0, FALSE) ELSE Round(1, -n, 0, FALSE)
Dec(n, d) == FDiv(FromInt(n), FromInt(d))

One == FromInt(1)
Two == FromInt(2)
\* std::f32::consts::PI = 0x40490FDB and TAU = 0x40C90FDB.
PI == Round(0, 13176795, -22, FALSE)
TAU == Round(0, 13176795, -21, FALSE)

\* ---------------------------------------------------------------- libm
\* f32::exp, f32::cos and f32::cosh are the C library's expf, cosf and coshf.  Their
\* special values are the C standard's; at the finite non-zero arguments that the
\* input sets of this module produce, their values are the library's, tabulated.
ExpTable ==
  { <<<<1, 128, 4788187>>, <<0, 122, 3211539>>>>,
   <<<<1, 129, 4788187>>, <<0, 117, 7652600>>>>,
   <<<<1, 130, 4788187>>, <<0, 108, 6948881>>>>,
   <<<<1, 132, 8082386>>, <<0, 36, 2323902>>>>,
   <<<<1, 133, 8082386>>, <<0, 0, 0>>>> }
CosTable ==
  { <<<<0, 122, 44541>>, <<0, 126, 8380329>>>>,
   <<<<0, 123, 44541>>, <<0, 126, 8355502>>>>,
   <<<<0, 125, 2152828>>, <<0, 126, 7567473>>>>,
   <<<<0, 126, 2152828>>, <<0, 126, 5184445>>>>,
   <<<<0, 128, 4788187>>, <<1, 127, 0>>>>,
   <<<<0, 129, 4788187>>, <<0, 127, 0>>>>,
   <<<<0, 132, 8082386>>, <<0, 127, 0>>>> }
CoshTable ==
  { <<<<0, 129, 3022831>>, <<0, 133, 6735065>>>>,
   <<<<0, 130, 3022831>>, <<0, 141, 5243981>>>>,
   <<<<0, 133, 5875691>>, <<0, 255, 0>>>> }

Lookup(table, a) == (CHOOSE p \in table : p[1] = a)[2]

ExpV(a) ==
  IF IsNaN(a) THEN NaN
  ELSE IF IsZero(a) THEN One
  ELSE IF IsInf(a) THEN (IF a[1] = 1 THEN Zero(0) ELSE a)
  ELSE Lookup(ExpTable, a)
FExp(a) == CHOOSE r \in {ExpV(v) : v \in {a}} : TRUE

CosV(a) ==
  IF IsNaN(a) \/ IsInf(a) THEN NaN
  ELSE IF IsZero(a) THEN One
  ELSE Lookup(CosTable, a)
FCos(a) == CHOOSE r \in {CosV(v) : v \in {a}} : TRUE

CoshV(a) ==
  IF IsNaN(a) THEN NaN
  ELSE IF IsZero(a) THEN One
  ELSE IF IsInf(a) THEN Inf(0)
  ELSE Lookup(CoshTable, a)
FCosh(a) == CHOOSE r \in {CoshV(v) : v \in {a}} : TRUE

\* ------------------------------------------------- SecondOrderDynamics
\* Option<T>
None == [some |-> FALSE, v |-> Zero(0)]
Some(v) == [some |-> TRUE, v |-> v]

VARIABLES
  pc,       \* "none": not constructed; "live"; "panicked": update's assert failed
  args,     \* the arguments of new: [f, z, r, x0]
  xp, y, yd, w, z, d, k1, k2, k3,   \* the fields of the struct
  call,     \* the last update call: its arguments t, x, xd, its locals and its result
  pre,      \* history: xp, y and yd as the last update call found them
  calls,    \* the number of update calls that returned
  est,      \* history: the target of the last call that estimated the rate, else x0
  sameDt,   \* history: every call so far had the same t
  reached   \* history: some call returned a value >= its target

fields == <<xp, y, yd, w, z, d, k1, k2, k3>>
vars == <<pc, args, xp, y, yd, w, z, d, k1, k2, k3, call, pre, calls, est, sameDt, reached>>

NoCall == [t |-> Zero(0), x |-> Zero(0), xd |-> None, rate |-> Zero(0),
           k1s |-> Zero(0), k2s |-> Zero(0), pole |-> FALSE, ret |-> Zero(0)]

Init ==
  /\ pc = "none"
  /\ args = [f |-> Zero(0), z |-> Zero(0), r |-> Zero(0), x0 |-> Zero(0)]
  /\ xp = Zero(0) /\ y = Zero(0) /\ yd = Zero(0)
  /\ w = Zero(0) /\ z = Zero(0) /\ d = Zero(0)
  /\ k1 = Zero(0) /\ k2 = Zero(0) /\ k3 = Zero(0)
  /\ call = NoCall
  /\ pre = [xp |-> Zero(0), y |-> Zero(0), yd |-> Zero(0)]
  /\ calls = 0
  /\ est = Zero(0)
  /\ sameDt = TRUE
  /\ reached = FALSE

\* new: the struct it returns.
NewW(f) == FMul(TAU, f)
NewD(f, zz) == FMul(NewW(f), FSqrt(FAbs(FSub(FMul(zz, zz), One))))
NewK1(f, zz) == FDiv(zz, FMul(PI, f))
NewK2NoReciprocal(f) == FMul(NewW(f), NewW(f))
NewK2(f) == FDiv(One, FMul(NewW(f), NewW(f)))
NewK3(f, zz, r) == FDiv(FMul(r, zz), NewW(f))
NewXp(x0) == x0
NewY(x0) == x0
NewYdFromStart(x0) == x0
NewYd(x0) == Zero(0)

New(f, zz, r, x0) ==
  /\ pc = "none"
  /\ pc' = "live"
  /\ args' = [f |-> f, z |-> zz, r |-> r, x0 |-> x0]
  /\ w' = NewW(f)
  /\ z' = zz
  /\ d' = NewD(f, zz)
  /\ k1' = NewK1(f, zz)
  /\ k2' = NewK2(f)
  /\ k3' = NewK3(f, zz, r)
  /\ xp' = NewXp(x0)
  /\ y' = NewY(x0)
  /\ yd' = NewYd(x0)
  /\ est' = x0
  /\ UNCHANGED <<call, pre, calls, sameDt, reached>>

\* update, "estimate velocity": whether the assert fails, the rate used, the new xp.
PanicsNever(t, xd) == FALSE
Panics(t, xd) == ~xd.some /\ ~FNe(t, Zero(0))
RateAlwaysEstimated(t, x, xd) == FDiv(FSub(x, xp), t)
Rate(t, x, xd) == IF xd.some THEN xd.v ELSE FDiv(FSub(x, xp), t)
NextXpAlways(t, x, xd) == x
NextXp(t, x, xd) == IF xd.some THEN xp ELSE x

\* update, "compute stable k1/k2": <<k1, k2>> of the step and the branch taken.
ClampedByDamping(t) == FLe(FMul(w, t), z)
Clamped(t) == FLt(FMul(w, t), z)
ClampK(t) ==
  <<k1, FMax(FMax(k2, FAdd(FDiv(FMul(t, t), Two), FDiv(FMul(t, k1), Two))), FMul(t, k1))>>
PoleK(t) ==
  LET t1 == FExp(FMul(FMul(FNeg(z), w), t))
      alpha == FMul(FMul(Two, t1),
                    IF FLe(z, One) THEN FCos(FMul(t, d)) ELSE FCosh(FMul(t, d)))
      beta == FMul(t1, t1)
      t2 == FDiv(t, FSub(FAdd(One, beta), alpha))
  IN  <<FMul(FSub(One, beta), t2), FMul(t, t2)>>
StableK(t) == IF Clamped(t) THEN ClampK(t) ELSE PoleK(t)

\* update, "integrate position by velocity" and "integrate velocity by acceleration".
NextY(t) == FAdd(y, FMul(yd, t))
NextYdOldValue(t, x, rate, ks) ==
  FAdd(yd, FDiv(FMul(FSub(FSub(FAdd(x, FMul(rate, k3)), y), FMul(yd, ks[1])), t), ks[2]))
NextYdNoRate(t, x, rate, ks) ==
  FAdd(yd, FDiv(FMul(FSub(FSub(x, NextY(t)), FMul(yd, ks[1])), t), ks[2]))
NextYd(t, x, rate, ks) ==
  FAdd(yd, FDiv(FMul(FSub(FSub(FAdd(x, FMul(rate, k3)), NextY(t)), FMul(yd, ks[1])), t), ks[2]))
Ret(t) == NextY(t)

UpdateStoringK(t, x, xd) ==
  /\ pc = "live"
  /\ IF Panics(t, xd)
     THEN /\ pc' = "panicked"
          /\ call' = [NoCall EXCEPT !.t = t, !.x = x, !.xd = xd]
          /\ pre' = [xp |-> xp, y |-> y, yd |-> yd]
          /\ UNCHANGED <<args, fields, calls, est, sameDt, reached>>
     ELSE \E rate \in {Rate(t, x, xd)}, ks \in {StableK(t)}, ret \in {Ret(t)} :
              /\ xp' = NextXp(t, x, xd)
              /\ y' = NextY(t)
              /\ yd' = NextYd(t, x, rate, ks)
              /\ call' = [t |-> t, x |-> x, xd |-> xd, rate |-> rate,
                          k1s |-> ks[1], k2s |-> ks[2], pole |-> ~Clamped(t),
                          ret |-> ret]
              /\ pre' = [xp |-> xp, y |-> y, yd |-> yd]
              /\ calls' = calls + 1
              /\ est' = IF xd.some THEN est ELSE x
              /\ sameDt' = (sameDt /\ (calls = 0 \/ t = call.t))
              /\ reached' = (reached \/ FGe(ret, x))
              /\ k1' = ks[1] /\ k2' = ks[2]
              /\ UNCHANGED <<pc, args, w, z, d, k3>>
Update(t, x, xd) ==
  /\ pc = "live"
  /\ IF Panics(t, xd)
     THEN /\ pc' = "panicked"
          /\ call' = [NoCall EXCEPT !.t = t, !.x = x, !.xd = xd]
          /\ pre' = [xp |-> xp, y |-> y, yd |-> yd]
          /\ UNCHANGED <<args, fields, calls, est, sameDt, reached>>
     ELSE \E rate \in {Rate(t, x, xd)}, ks \in {StableK(t)}, ret \in {Ret(t)} :
              /\ xp' = NextXp(t, x, xd)
              /\ y' = NextY(t)
              /\ yd' = NextYd(t, x, rate, ks)
              /\ call' = [t |-> t, x |-> x, xd |-> xd, rate |-> rate,
                          k1s |-> ks[1], k2s |-> ks[2], pole |-> ~Clamped(t),
                          ret |-> ret]
              /\ pre' = [xp |-> xp, y |-> y, yd |-> yd]
              /\ calls' = calls + 1
              /\ est' = IF xd.some THEN est ELSE x
              /\ sameDt' = (sameDt /\ (calls = 0 \/ t = call.t))
              /\ reached' = (reached \/ FGe(ret, x))
              /\ UNCHANGED <<pc, args, w, z, d, k1, k2, k3>>

\* The calls of any client: any arguments, MaxCalls calls.
MaxCalls == 2
Freqs == {FromInt(-1), FromInt(0), FromInt(1), FromInt(10)}
Damps == {FromInt(0), FromInt(1), FromInt(2)}
Resps == {FromInt(2)}
Starts == {FromInt(0), Dec(1, 2)}
Dts == {FromInt(0), Dec(1, 100), FromInt(1), Dec(-1, 100)}
Targets == {FromInt(1), FromInt(2)}
Rates == {None, Some(Dec(1, 100))}

Construct == \E f \in Freqs, zz \in Damps, r \in Resps, x0 \in Starts : New(f, zz, r, x0)
Step == \E t \in Dts, x \in Targets, xd \in Rates : calls < MaxCalls /\ Update(t, x, xd)

Next == Construct \/ Step
Spec == Init /\ [][Next]_vars

\* A step response: the target steps from initial_value 0 to 1 and holds, every call
\* passes the rate Some(0) and a step of its own, MaxRun calls.
MaxRun == 3
StepFreqs == {Dec(1, 2), FromInt(1), FromInt(10)}
StepResps == {FromInt(0), FromInt(2)}
StepDts == {Dec(1, 100), Dec(1, 10), FromInt(1)}
StepTarget == FromInt(1)

ConstructStep == \E f \in StepFreqs, zz \in Damps, r \in StepResps : New(f, zz, r, Zero(0))
HoldStep == \E t \in StepDts : calls < MaxRun /\ Update(t, StepTarget, Some(Zero(0)))

NextStep == ConstructStep \/ HoldStep
SpecStep == Init /\ [][NextStep]_vars

\* The test it_works and its neighbours: new(2.0, 1.0, r, 0.0), then MaxSteps calls
\* update(0.01, 1.0, xd) with the same xd in every call.
MaxSteps == 220
TestCalls == 100
TestF == FromInt(2)
TestZ == One
TestR == FromInt(2)
TestX0 == Zero(0)
TestT == Dec(1, 100)
TestX == One
TestXd == Some(Dec(1, 100))
TestResps == {TestR, Dec(1, 2)}
TestRates == {TestXd, None}

ConstructTest == \E r \in TestResps : New(TestF, TestZ, r, TestX0)
StepTest ==
  \E xd \in TestRates :
    calls < MaxSteps /\ (calls = 0 \/ xd = call.xd) /\ Update(TestT, TestX, xd)

NextTest == ConstructTest \/ StepTest
SpecTest == Init /\ [][NextTest]_vars

\* A filter built at rest: initial_value is the resting value x + v*k3 of a target x
\* and a rate v, rate is zero; then MaxCalls calls with explicit rates.
RestRates == {Some(Zero(0)), Some(Dec(1, 100))}
RestValue(f, zz, r, x, v) == FAdd(x, FMul(v, NewK3(f, zz, r)))

ConstructRest ==
  \E f \in Freqs, zz \in Damps, r \in Resps, x \in Targets, xd \in RestRates :
    New(f, zz, r, RestValue(f, zz, r, x, xd.v))
StepRest ==
  \E t \in Dts, x \in Targets, xd \in RestRates : calls < MaxCalls /\ Update(t, x, xd)

NextRest == ConstructRest \/ StepRest
SpecRest == Init /\ [][NextRest]_vars
\* ---------------------------------------------------------------- claims
\* A step in which an update call returned.
Returned == pc = "live" /\ pc' = "live" /\ calls' = calls + 1

\* C1: an update call that returns sets value to old value + old rate * dt, sets rate to
\* old rate + (target + xd*k3 - new value - old rate*k1') * dt / k2', where xd is the
\* explicit rate or else (target - previous_target)/dt with the previous_target of
\* before the call, and returns the new value.
C1_UpdateFormula ==
  (pc = "live" /\ calls >= 1) =>
    LET t == call.t
        x == call.x
        xdv == IF call.xd.some THEN call.xd.v ELSE FDiv(FSub(x, pre.xp), t)
        drive == FAdd(x, FMul(xdv, k3))
        damp == FMul(pre.yd, call.k1s)
        acc == FDiv(FMul(FSub(FSub(drive, y), damp), t), call.k2s)
    IN  /\ y = FAdd(pre.y, FMul(pre.yd, t))
        /\ yd = FAdd(pre.yd, acc)
        /\ call.ret = y
C1_Witness ==
  /\ pc = "live" /\ calls = 2 /\ ~call.xd.some
  /\ IsFinite(yd) /\ ~IsZero(yd) /\ IsFinite(y) /\ y # pre.y /\ ~IsZero(call.rate)

\* C2: for an instance built with frequency > 0 and damping_ratio >= 0, every update
\* call with dt > 0 computes a strictly positive step-local k2.
C2_StepK2Positive ==
  (pc = "live" /\ calls >= 1 /\ FGt(args.f, Zero(0)) /\ FGe(z, Zero(0)) /\ FGt(call.t, Zero(0)))
    => FGt(call.k2s, Zero(0))

\* C4: right after new with frequency > 0 and damping_ratio >= 0, value and
\* previous_target are initial_value and rate is zero.
C4_AfterNew ==
  (pc = "live" /\ calls = 0 /\ FGt(args.f, Zero(0)) /\ FGe(args.z, Zero(0)))
    => (y = args.x0 /\ xp = args.x0 /\ yd = Zero(0))
C4_Witness ==
  pc = "live" /\ calls = 0 /\ FGt(args.f, Zero(0)) /\ ~IsZero(args.x0) /\ y = args.x0

\* C5: an update call with dt == 0 and no explicit rate fails (it does not return) and
\* leaves value, rate and previous_target as they were.
C5_ZeroDtPanics ==
  [][(pc = "live" /\ ~call'.xd.some /\ FEq(call'.t, Zero(0)))
       => (pc' = "panicked" /\ calls' = calls /\ y' = y /\ yd' = yd /\ xp' = xp)]_vars
C5_Witness == pc = "panicked" /\ calls = 1 /\ ~IsZero(yd) /\ IsFinite(yd)

C7_PreviousTarget ==
  [][(pc' = "live" /\ (pc = "none" \/ Returned)) =>
       /\ Returned => IF call'.xd.some
                      THEN xp' = xp /\ call'.rate = call'.xd.v
                      ELSE xp' = call'.x
       /\ xp' = est']_vars
C7_Witness ==
  /\ pc = "live" /\ calls = 2 /\ call.xd.some
  /\ xp # call.x /\ xp # args.x0 /\ xp = est

\* The part of C10 on the test w*dt < z and on the clamped scheme's coefficients.
C10_Selection ==
  LET t == call.t
      wt == FMul(w, t)
  IN  /\ ~call.pole <=> FLt(wt, z)
      /\ call.pole <=> FGe(wt, z)
      /\ ~call.pole =>
           /\ call.k1s = k1
           /\ call.k2s = FMax(FMax(k2, FAdd(FDiv(FMul(t, t), Two), FDiv(FMul(t, k1), Two))),
                              FMul(t, k1))
           /\ FGe(call.k2s, k2)
\* C10 as stated: the clamped scheme is used exactly when w*dt < z, pole matching
\* exactly when w*dt >= z; any dt < 0 selects the clamped scheme when damping_ratio >= 0;
\* in the clamped scheme k1' = k1 and k2' = max(k2, dt^2/2 + dt*k1/2, dt*k1) >= k2.
C10_Regime ==
  (pc = "live" /\ calls >= 1) =>
    /\ C10_Selection
    /\ (FLt(call.t, Zero(0)) /\ FGe(z, Zero(0))) => ~call.pole
\* C10 as amended: the same, the consequence for dt < 0 being claimed only of an
\* instance with w > 0 (frequency > 0) and of a product w*dt that is not zero.
C10_RegimePositiveW ==
  (pc = "live" /\ calls >= 1) =>
    /\ C10_Selection
    /\ (FLt(call.t, Zero(0)) /\ FGe(z, Zero(0)) /\ FGt(w, Zero(0))
        /\ ~IsZero(FMul(w, call.t))) => ~call.pole
C10_Witness ==
  pc = "live" /\ calls >= 1 /\ ~call.pole /\ FGt(w, Zero(0)) /\ FGt(call.k2s, k2)

\* C3: with frequency > 0, damping_ratio >= 0 and one dt in all calls, the distance of
\* the value from a constant target fed with rate Some(0) stays bounded: it is a finite
\* number after every call.
C3_StepResponseBounded ==
  (pc = "live" /\ calls >= 1 /\ sameDt /\ FGt(args.f, Zero(0)) /\ FGe(z, Zero(0)))
    => IsFinite(FAbs(FSub(y, call.x)))

\* The last call changed nothing, so no later call with the same arguments will.
Settled == pc = "live" /\ calls >= 1 /\ y = pre.y /\ yd = pre.yd /\ xp = pre.xp
\* The run of the test: new(2.0, 1.0, 2.0, 0.0) and calls update(0.01, 1.0, Some(0.01)).
TestRun == args.r = TestR /\ (calls >= 1 => call.xd = TestXd)

\* C8 as stated: with initial_response > 0, the values returned after the target
\* stepped and held reach or exceed the target at some call before the filter settles.
C8_Anticipation ==
  (Settled /\ FGt(args.r, Zero(0)) /\ FGt(args.f, Zero(0)) /\ FGe(z, Zero(0))) => reached
\* C8 as amended: in the run of the test, new(2.0, 1.0, 2.0, 0.0) and calls
\* update(0.01, 1.0, Some(0.01)), the value returned by call 100 is >= 1.0, and so is
\* the one of every later call; an initial_response > 0 alone does not make the returned
\* values reach the target.
C8_TestRun ==
  (pc = "live" /\ TestRun /\ calls >= TestCalls) => (FGe(call.ret, call.x) /\ reached)
C8_Witness ==
  pc = "live" /\ TestRun /\ calls = TestCalls /\ FGt(call.ret, TestX) /\ ~Settled

\* C9: with damping_ratio > 1 and initial_response = 0, after the target stepped and
\* held, no sequence of calls with dt > 0 takes the value above the target by more than
\* the tolerance.
Tolerance == Dec(1, 1000)
C9_NoOvershoot ==
  (pc = "live" /\ calls >= 1 /\ FGt(z, One) /\ IsZero(args.r) /\ FGt(args.f, Zero(0)))
    => ~FGt(y, FAdd(call.x, Tolerance))

\* C11: after any sequence of update calls, in either regime, the stored w, z, d, k1, k2
\* and k3 are the values new computed from its arguments; the k1', k2' of a step are
\* not stored.
C11_CoefficientsConstant ==
  pc # "none" =>
    /\ w = NewW(args.f)
    /\ z = args.z
    /\ d = NewD(args.f, args.z)
    /\ k1 = NewK1(args.f, args.z)
    /\ k2 = NewK2(args.f)
    /\ k3 = NewK3(args.f, args.z, args.r)
C11_Witness ==
  /\ pc = "live" /\ calls = 2 /\ call.pole
  /\ IsFinite(call.k1s) /\ call.k1s # k1 /\ IsFinite(call.k2s) /\ call.k2s # k2
  /\ k2 = NewK2(args.f)

\* The last call was update(dt, x, Some(v)) made at rest: rate = 0 and
\* value = x + v*k3 before it, and its k2' finite and positive.
AtRest ==
  /\ pc = "live" /\ calls >= 1 /\ call.xd.some
  /\ FEq(pre.yd, Zero(0))
  /\ FEq(pre.y, FAdd(call.x, FMul(call.xd.v, k3)))
  /\ IsFinite(call.k2s) /\ FGt(call.k2s, Zero(0))

\* C12: an update(dt, target, Some(v)) made with rate = 0 and value = target + k3*v,
\* whose k2' is finite and positive, leaves value and rate as they were and returns that
\* value; so with v = 0 the filter stays on its target, and with v # 0 it rests k3*v
\* away from it.
C12_RestFixedPoint ==
  AtRest =>
    /\ FEq(y, pre.y) /\ FEq(yd, pre.yd) /\ FEq(call.ret, pre.y)
    /\ IsZero(call.xd.v) => FEq(y, call.x)
    /\ FEq(y, FAdd(call.x, FMul(call.xd.v, k3)))
C12_Witness ==
  /\ AtRest /\ calls = 2 /\ call.pole /\ ~IsZero(call.xd.v)
  /\ y = pre.y /\ y # call.x /\ IsZero(yd)
====
